---- MODULE Spec2Model ----
(***************************************************************************)
(* Infinite scroll + image lazy loading (App with the three custom hooks   *)
(* useFetch, useInfiniteScroll and useLazyLoading).                        *)
(*                                                                         *)
(* The state is the two reducer states (pager, imgData), the dependency    *)
(* values the effects last ran with, the fetches in flight, the DOM <img>  *)
(* nodes with the IntersectionObservers watching them, the observer on    *)
(* the bottom boundary, and whether the App is still mounted.  JavaScript callbacks run to completion, so every  *)
(* callback is one action.  Passive effects of a render are flushed before *)
(* the next render is processed, so a callback that dispatches is taken    *)
(* only when no effect is pending.                                         *)
(***************************************************************************)
EXTENDS Integers, Sequences, FiniteSets

VARIABLES pager, imgData, depsPage, depsItems, scrollObs, inflight,
          dom, intObs, seen, swaps, errors, itemsId, advances,
          requests, failed, calls, mounted, lastRatio

vars == <<pager, imgData, depsPage, depsItems, scrollObs, inflight,
          dom, intObs, seen, swaps, errors, itemsId, advances,
          requests, failed, calls, mounted, lastRatio>>

(* Bounds of the model *)
MaxPage == 2        \* the bottom boundary stops advancing at this page
MaxImages == 2      \* responses stop adding records at this list length

(* Program constants *)
Limit == 10         \* &limit=10 of the request
NoDeps == -1        \* an effect that has not run yet has no dependency values

Ratios == {0, 1}    \* intersectionRatio of a notification: 0 or positive

(* src={'https://picsum.photos/id/870/300/300?grayscale&blur=2'} *)
Placeholder == <<0>>
(* a download_url is the empty string <<>> or a string of its own <<p, k>> *)
NoUrl == <<>>

Pages == 0..MaxPage

(* The k-th record of the response for page p. *)
Record(p, k, valid) ==
  [id |-> <<p, k>>, download_url |-> IF valid THEN <<p, k>> ELSE NoUrl]

(* The possible JSON bodies for page p: an array of records, in order,   *)
(* that keeps a list of the given length within MaxImages.               *)
Responses(p, len) ==
  UNION { { [k \in 1..n |-> Record(p, k, v[k])] : v \in [1..n -> BOOLEAN] }
          : n \in 0..(MaxImages - len) }

(* ---------------------------- reducers --------------------------------- *)
(* imgReducer whose STACK_IMAGES replaces the list instead of concat *)
imgReducerReplaces(state, action) ==
  CASE action.type = "STACK_IMAGES" ->
         [state EXCEPT !.images = action.images]
    [] action.type = "FETCHING_IMAGES" ->
         [state EXCEPT !.fetching = action.fetching]
    [] OTHER -> state

(* imgReducer whose FETCHING_IMAGES forgets to spread the old state *)
imgReducerNoSpread(state, action) ==
  CASE action.type = "STACK_IMAGES" ->
         [state EXCEPT !.images = state.images \o action.images]
    [] action.type = "FETCHING_IMAGES" ->
         [images |-> <<>>, fetching |-> action.fetching]
    [] OTHER -> state

(* imgReducer whose STACK_IMAGES drops records that are already present *)
imgReducerDedups(state, action) ==
  CASE action.type = "STACK_IMAGES" ->
         [state EXCEPT !.images = state.images \o
            SelectSeq(action.images,
                      LAMBDA r : \A m \in 1..Len(state.images) :
                                   state.images[m] # r)]
    [] action.type = "FETCHING_IMAGES" ->
         [state EXCEPT !.fetching = action.fetching]
    [] OTHER -> state

imgReducer(state, action) ==
  CASE action.type = "STACK_IMAGES" ->
         [state EXCEPT !.images = state.images \o action.images]
    [] action.type = "FETCHING_IMAGES" ->
         [state EXCEPT !.fetching = action.fetching]
    [] OTHER -> state

(* pageReducer with a wrong increment *)
pageReducerSkips(state, action) ==
  CASE action.type = "ADVANCE_PAGE" -> [state EXCEPT !.page = state.page + 2]
    [] OTHER -> state

pageReducer(state, action) ==
  CASE action.type = "ADVANCE_PAGE" -> [state EXCEPT !.page = state.page + 1]
    [] OTHER -> state

FetchingImages(b) == [type |-> "FETCHING_IMAGES", fetching |-> b]
StackImages(recs) == [type |-> "STACK_IMAGES", images |-> recs]
AdvancePage == [type |-> "ADVANCE_PAGE"]
(* an action of a type neither reducer has a case for *)
Unknown == [type |-> "UNKNOWN"]
(* the request fetch(`...?page=${p}&limit=10`) *)
Request(p) == [type |-> "fetch", page |-> p, limit |-> Limit]

(* A dispatch or request made by an effect or a callback: what it is, and *)
(* the page of the fetch that made it (NoDeps for the bottom boundary).   *)
Entry(p, a) == [by |-> p, action |-> a]

(* number of requests issued so far for page p with limit 10 *)
NumRequestsFor(p) ==
  Cardinality({ j \in 1..Len(requests) : requests[j] = Request(p) })

(* ------------------------------ render --------------------------------- *)
(* <img data-src={download_url} src={placeholder}/> for each image; nodes  *)
(* are keyed by index, so an existing node is kept and only new nodes are  *)
(* created.                                                                *)
(* the markup before lazy loading: src={download_url} *)
NewImgEager(image) ==
  [src |-> image.download_url, data_src |-> image.download_url]

NewImg(image) == [src |-> Placeholder, data_src |-> image.download_url]

(* a render that recreates every node (unstable keys) *)
RenderRemounts(nodes, images) ==
  [i \in 1..Len(images) |-> NewImg(images[i])]

Render(nodes, images) ==
  [i \in 1..Len(images) |-> IF i <= Len(nodes) THEN nodes[i]
                            ELSE NewImg(images[i])]

Zeros(n) == [i \in 1..n |-> 0]

EffectsPending ==
  \/ depsPage # pager.page
  \/ depsItems # itemsId
  \/ scrollObs = 0

(* ------------------------------ Init ----------------------------------- *)
(* a page counter that starts at 1: useReducer(pageReducer, { page: 1 }) *)
InitPageOne ==
  /\ pager = [page |-> 1]
  /\ imgData = [images |-> <<>>, fetching |-> TRUE]
  /\ depsPage = NoDeps
  /\ depsItems = NoDeps
  /\ scrollObs = 0
  /\ inflight = {}
  /\ dom = <<>>
  /\ intObs = <<>>
  /\ seen = <<>>
  /\ swaps = <<>>
  /\ errors = <<>>
  /\ itemsId = 0
  /\ advances = 0
  /\ requests = <<>>
  /\ failed = {}
  /\ calls = <<>>
  /\ mounted = TRUE
  /\ lastRatio = NoDeps

(* The state after the first render, before its effects have run. *)
Init ==
  /\ pager = [page |-> 0]
  /\ imgData = [images |-> <<>>, fetching |-> TRUE]
  /\ depsPage = NoDeps
  /\ depsItems = NoDeps
  /\ scrollObs = 0
  /\ inflight = {}
  /\ dom = <<>>
  /\ intObs = <<>>
  /\ seen = <<>>
  /\ swaps = <<>>
  /\ errors = <<>>
  /\ itemsId = 0
  /\ advances = 0
  /\ requests = <<>>
  /\ failed = {}
  /\ calls = <<>>
  /\ mounted = TRUE
  /\ lastRatio = NoDeps

(* ------------------------------ effects -------------------------------- *)
(* useFetch without its dependency array: runs after every render *)
useFetchNoDeps ==
  /\ imgData' = imgReducer(imgData, FetchingImages(TRUE))
  /\ inflight' = inflight \cup {pager.page}
  /\ requests' = Append(requests, Request(pager.page))
  /\ calls' = << Entry(pager.page, FetchingImages(TRUE)),
                 Entry(pager.page, Request(pager.page)) >>
  /\ depsPage' = pager.page

(* useFetch: runs when data.page changed. *)
useFetch ==
  IF depsPage # pager.page
  THEN /\ imgData' = imgReducer(imgData, FetchingImages(TRUE))
       /\ inflight' = inflight \cup {pager.page}
       /\ requests' = Append(requests, Request(pager.page))
       /\ calls' = << Entry(pager.page, FetchingImages(TRUE)),
                      Entry(pager.page, Request(pager.page)) >>
       /\ depsPage' = pager.page
  ELSE UNCHANGED <<imgData, inflight, requests, calls, depsPage>>

(* a registration that uses querySelector: only the first img is observed *)
useLazyLoadingFirstOnly ==
  IF depsItems # itemsId
  THEN /\ intObs' = [i \in 1..Len(dom) |->
                       IF i = 1 THEN intObs[i] + 1 ELSE intObs[i]]
       /\ depsItems' = itemsId
  ELSE UNCHANGED <<intObs, depsItems>>

(* useLazyLoading: runs when items changed; observes every img node found *)
(* by querySelectorAll with a new IntersectionObserver.                   *)
useLazyLoading ==
  IF depsItems # itemsId
  THEN /\ intObs' = [i \in 1..Len(dom) |-> intObs[i] + 1]
       /\ depsItems' = itemsId
  ELSE UNCHANGED <<intObs, depsItems>>

(* useInfiniteScroll whose effect runs after every render *)
useInfiniteScrollEveryRender == scrollObs' = scrollObs + 1

(* useInfiniteScroll: runs once, scrollRef.current is set after mount. *)
useInfiniteScroll ==
  IF scrollObs = 0
  THEN scrollObs' = scrollObs + 1
  ELSE UNCHANGED scrollObs

flushPassiveEffects ==
  /\ mounted
  /\ EffectsPending
  /\ useFetch
  /\ useLazyLoading
  /\ useInfiniteScroll
  /\ UNCHANGED <<pager, dom, seen, swaps, errors, itemsId, advances, failed,
                 mounted, lastRatio>>

(* --------------------------- fetch callbacks --------------------------- *)
(* the success callback with its two dispatches in the other order *)
FetchSuccessFlagFirst(p, recs) ==
  /\ mounted
  /\ p \in inflight
  /\ ~EffectsPending
  /\ inflight' = inflight \ {p}
  /\ imgData' = imgReducer(imgReducer(imgData, FetchingImages(FALSE)),
                           StackImages(recs))
  /\ calls' = << Entry(p, FetchingImages(FALSE)),
                 Entry(p, StackImages(recs)) >>
  /\ itemsId' = itemsId + 1
  /\ dom' = Render(dom, imgData'.images)
  /\ intObs' = intObs \o Zeros(Len(recs))
  /\ seen' = seen \o Zeros(Len(recs))
  /\ swaps' = swaps \o Zeros(Len(recs))
  /\ errors' = errors \o Zeros(Len(recs))
  /\ UNCHANGED <<pager, depsPage, depsItems, scrollObs, advances, requests,
                 failed, mounted, lastRatio>>

(* a success callback that treats an empty array as a failure *)
FetchSuccessEmptyFails(p, recs) ==
  /\ mounted
  /\ p \in inflight
  /\ ~EffectsPending
  /\ inflight' = inflight \ {p}
  /\ imgData' = imgReducer(imgReducer(imgData, StackImages(recs)),
                           FetchingImages(FALSE))
  /\ calls' = IF recs = <<>>
              THEN << Entry(p, FetchingImages(FALSE)) >>
              ELSE << Entry(p, StackImages(recs)),
                      Entry(p, FetchingImages(FALSE)) >>
  /\ failed' = IF recs = <<>> THEN failed \cup {p} ELSE failed
  /\ itemsId' = IF recs = <<>> THEN itemsId ELSE itemsId + 1
  /\ dom' = Render(dom, imgData'.images)
  /\ intObs' = intObs \o Zeros(Len(recs))
  /\ seen' = seen \o Zeros(Len(recs))
  /\ swaps' = swaps \o Zeros(Len(recs))
  /\ errors' = errors \o Zeros(Len(recs))
  /\ UNCHANGED <<pager, depsPage, depsItems, scrollObs, advances, requests,
                 mounted, lastRatio>>

(* .then(images => { STACK_IMAGES; FETCHING_IMAGES false }); the concat   *)
(* of STACK_IMAGES makes imgData.images a new array.                      *)
FetchSuccess(p, recs) ==
  /\ mounted
  /\ p \in inflight
  /\ ~EffectsPending
  /\ inflight' = inflight \ {p}
  /\ imgData' = imgReducer(imgReducer(imgData, StackImages(recs)),
                           FetchingImages(FALSE))
  /\ calls' = << Entry(p, StackImages(recs)),
                 Entry(p, FetchingImages(FALSE)) >>
  /\ itemsId' = itemsId + 1
  /\ dom' = Render(dom, imgData'.images)
  /\ intObs' = intObs \o Zeros(Len(recs))
  /\ seen' = seen \o Zeros(Len(recs))
  /\ swaps' = swaps \o Zeros(Len(recs))
  /\ errors' = errors \o Zeros(Len(recs))
  /\ UNCHANGED <<pager, depsPage, depsItems, scrollObs, advances, requests,
                 failed, mounted, lastRatio>>

(* a catch handler that issues the request again *)
FetchFailureRetries(p) ==
  /\ mounted
  /\ p \in inflight
  /\ ~EffectsPending
  /\ NumRequestsFor(p) < 2
  /\ inflight' = inflight
  /\ failed' = failed \cup {p}
  /\ imgData' = imgReducer(imgData, FetchingImages(FALSE))
  /\ requests' = Append(requests, Request(p))
  /\ calls' = << Entry(p, FetchingImages(FALSE)), Entry(p, Request(p)) >>
  /\ UNCHANGED <<pager, depsPage, depsItems, scrollObs, dom, intObs, seen,
                 swaps, errors, itemsId, advances, mounted, lastRatio>>

(* a catch handler that only reports the error *)
FetchFailureKeepsFlag(p) ==
  /\ mounted
  /\ p \in inflight
  /\ ~EffectsPending
  /\ inflight' = inflight \ {p}
  /\ failed' = failed \cup {p}
  /\ calls' = <<>>
  /\ UNCHANGED <<pager, imgData, depsPage, depsItems, scrollObs, dom, intObs,
                 seen, swaps, errors, itemsId, advances, requests, mounted,
                 lastRatio>>

(* .catch(e => { FETCHING_IMAGES false }) *)
FetchFailure(p) ==
  /\ mounted
  /\ p \in inflight
  /\ ~EffectsPending
  /\ inflight' = inflight \ {p}
  /\ failed' = failed \cup {p}
  /\ imgData' = imgReducer(imgData, FetchingImages(FALSE))
  /\ calls' = << Entry(p, FetchingImages(FALSE)) >>
  /\ UNCHANGED <<pager, depsPage, depsItems, scrollObs, dom, intObs, seen,
                 swaps, errors, itemsId, advances, requests, mounted,
                 lastRatio>>

(* ------------------------- observer callbacks -------------------------- *)
(* the boundary callback without the test of the ratio *)
scrollObserverAnyRatio(ratio) ==
  /\ scrollObs > 0
  /\ lastRatio' = ratio
  /\ mounted
  /\ ~EffectsPending
  /\ pager.page < MaxPage
  /\ pager' = pageReducer(pager, AdvancePage)
  /\ advances' = IF ratio > 0 THEN advances + 1 ELSE advances
  /\ calls' = << Entry(NoDeps, AdvancePage) >>
  /\ UNCHANGED <<imgData, depsPage, depsItems, scrollObs, inflight, dom,
                 intObs, seen, swaps, errors, itemsId, requests, failed,
                 mounted>>

(* The callback of the observer on the bottom boundary, one entry.        *)
(* advances counts the entries with a positive ratio, lastRatio is the    *)
(* ratio of the entry the latest observer callback handled.  A node that  *)
(* is no longer in the document does not intersect.                       *)
scrollObserver(ratio) ==
  /\ scrollObs > 0
  /\ lastRatio' = ratio
  /\ IF ratio > 0
     THEN /\ mounted
          /\ ~EffectsPending
          /\ pager.page < MaxPage
          /\ pager' = pageReducer(pager, AdvancePage)
          /\ advances' = advances + 1
          /\ calls' = << Entry(NoDeps, AdvancePage) >>
     ELSE UNCHANGED <<pager, advances, calls>>
  /\ UNCHANGED <<imgData, depsPage, depsItems, scrollObs, inflight, dom,
                 intObs, seen, swaps, errors, itemsId, requests, failed,
                 mounted>>

(* The callback of one of the observers of img node i, one entry.  seen,  *)
(* swaps and errors count, per node, the notifications with a positive    *)
(* ratio, the assignments to src and the console.error calls.             *)
imgObserver(i, ratio) ==
  /\ i \in 1..Len(dom)
  /\ intObs[i] > 0
  /\ lastRatio' = ratio
  /\ seen' = [seen EXCEPT ![i] = IF ratio > 0 THEN @ + 1 ELSE @]
  /\ IF ratio > 0
     THEN /\ mounted
          /\ IF dom[i].data_src = NoUrl
             THEN /\ errors' = [errors EXCEPT ![i] = @ + 1]
                  /\ UNCHANGED <<dom, swaps>>
             ELSE /\ dom' = [dom EXCEPT ![i].src = dom[i].data_src]
                  /\ swaps' = [swaps EXCEPT ![i] = @ + 1]
                  /\ UNCHANGED errors
          /\ intObs' = [intObs EXCEPT ![i] = @ - 1]
     ELSE UNCHANGED <<dom, swaps, errors, intObs>>
  /\ UNCHANGED <<pager, imgData, depsPage, depsItems, scrollObs, inflight,
                 itemsId, advances, requests, failed, calls, mounted>>

Next ==
  \/ flushPassiveEffects
  \/ \E p \in Pages : \E recs \in Responses(p, Len(imgData.images)) :
                         FetchSuccess(p, recs)
  \/ \E p \in Pages : FetchFailure(p)
  \/ \E r \in Ratios : scrollObserver(r)
  \/ \E i \in 1..MaxImages : \E r \in Ratios : imgObserver(i, r)

Spec == Init /\ [][Next]_vars

(* ------------------------------ teardown ------------------------------- *)
(* The App is unmounted.  None of the three effects returns a cleanup     *)
(* function, so no observer is disconnected and no fetch is cancelled.    *)
Unmount ==
  /\ mounted
  /\ mounted' = FALSE
  /\ UNCHANGED <<pager, imgData, depsPage, depsItems, scrollObs, inflight,
                 dom, intObs, seen, swaps, errors, itemsId, advances,
                 requests, failed, calls, lastRatio>>

(* The then or catch callback of a fetch that settles after the unmount:  *)
(* it makes its dispatch calls cs all the same; the reducer state of the  *)
(* unmounted component is no longer updated.                              *)
FetchSettledUnmounted(p, cs) ==
  /\ ~mounted
  /\ p \in inflight
  /\ inflight' = inflight \ {p}
  /\ calls' = cs
  /\ UNCHANGED <<pager, imgData, depsPage, depsItems, scrollObs, dom, intObs,
                 seen, swaps, errors, itemsId, advances, requests, failed,
                 mounted, lastRatio>>

NextTeardown ==
  \/ flushPassiveEffects
  \/ \E p \in Pages : \E recs \in Responses(p, Len(imgData.images)) :
                         FetchSuccess(p, recs)
  \/ \E p \in Pages : FetchFailure(p)
  \/ \E r \in Ratios : scrollObserver(r)
  \/ \E i \in 1..MaxImages : \E r \in Ratios : imgObserver(i, r)
  \/ Unmount
  \/ \E p \in Pages : \E recs \in Responses(p, Len(imgData.images)) :
       FetchSettledUnmounted(p, << Entry(p, StackImages(recs)),
                                   Entry(p, FetchingImages(FALSE)) >>)
  \/ \E p \in Pages :
       FetchSettledUnmounted(p, << Entry(p, FetchingImages(FALSE)) >>)

TeardownSpec == Init /\ [][NextTeardown]_vars

(* ------------------------- the reducers alone -------------------------- *)
(* imgDispatch(action) and pagerDispatch(action) of the two useReducer     *)
(* containers, applied to any action in any order; calls holds the action. *)
imgDispatch(action) ==
  /\ imgData' = imgReducer(imgData, action)
  /\ calls' = << Entry(NoDeps, action) >>
  /\ UNCHANGED <<pager, depsPage, depsItems, scrollObs, inflight, dom, intObs,
                 seen, swaps, errors, itemsId, advances, requests, failed,
                 mounted, lastRatio>>

pagerDispatch(action) ==
  /\ pageReducer(pager, action).page <= MaxPage
  /\ pager' = pageReducer(pager, action)
  /\ calls' = << Entry(NoDeps, action) >>
  /\ UNCHANGED <<imgData, depsPage, depsItems, scrollObs, inflight, dom,
                 intObs, seen, swaps, errors, itemsId, advances, requests,
                 failed, mounted, lastRatio>>

NextReducers ==
  \/ \E b \in BOOLEAN : imgDispatch(FetchingImages(b))
  \/ \E p \in Pages : \E recs \in Responses(p, Len(imgData.images)) :
                         imgDispatch(StackImages(recs))
  \/ imgDispatch(AdvancePage)
  \/ imgDispatch(Unknown)
  \/ pagerDispatch(AdvancePage)
  \/ \E b \in BOOLEAN : pagerDispatch(FetchingImages(b))
  \/ \E p \in Pages : \E recs \in Responses(p, Len(imgData.images)) :
                         pagerDispatch(StackImages(recs))
  \/ pagerDispatch(Unknown)

ReducerSpec == Init /\ [][NextReducers]_vars

(* ============================== claims ================================= *)
IsPrefix(s, t) == Len(s) <= Len(t) /\ SubSeq(t, 1, Len(s)) = s

(* the fetch effect has run for the current page value *)
FetchEffectDone == depsPage = pager.page

(* the records of page p that are in images *)
RecordsOf(p) ==
  { m \in 1..Len(imgData.images) : imgData.images[m].id[1] = p }

(* C1: the page counter starts at 0 and equals the number of qualifying   *)
(* notifications of the bottom boundary delivered so far: each adds       *)
(* exactly 1, none is lost or coalesced, also while a fetch is in flight. *)
C1_PageCountsEvents == pager.page = advances

(* two qualifying notifications arrived while the fetch of page 0 was    *)
(* still in flight                                                        *)
C1_Witness == pager.page = 2 /\ advances = 2 /\ 0 \in inflight

(* C2: every value the page counter has taken has exactly one request,    *)
(* with limit 10 (the current value once the fetch effect has run for     *)
(* it), no other request exists, and no page is requested twice.          *)
C2_OneFetchPerPage ==
  /\ \A p \in Pages :
       NumRequestsFor(p) =
         IF p < pager.page \/ (p = pager.page /\ FetchEffectDone)
         THEN 1 ELSE 0
  /\ \A j \in 1..Len(requests) :
       /\ requests[j].limit = 10
       /\ requests[j].page \in 0..pager.page

(* pages 0, 1, 2 requested; page 0 failed, page 1 still in flight *)
C2_Witness ==
  /\ pager.page = 2 /\ FetchEffectDone
  /\ 0 \in failed /\ 1 \in inflight
  /\ NumRequestsFor(0) = 1

(* C3 (as claimed): for every img node the callback performs its action   *)
(* (assignment to src, or the diagnostic) at most once.                   *)
C3_AtMostOnce == \A i \in 1..Len(dom) : swaps[i] + errors[i] <= 1

(* C4: images is append-only: in every step the list before is a prefix   *)
(* of the list after.                                                     *)
C4_AppendOnly == [][IsPrefix(imgData.images, imgData'.images)]_vars

(* two responses with records have been appended *)
C4_Witness ==
  /\ Len(imgData.images) >= 2
  /\ imgData.images[1].id[1] # imgData.images[2].id[1]

(* C5 (as claimed): fetching is true exactly when some request is         *)
(* outstanding.                                                           *)
C5_FetchingIffInflight == imgData.fetching <=> (inflight # {})

(* C6: in the calls of every effect and callback, a request comes right   *)
(* after the FETCHING_IMAGES(true) of the same fetch, a STACK_IMAGES is   *)
(* for a requested page and is followed immediately by the                *)
(* FETCHING_IMAGES(false) of the same fetch, and after that callback the  *)
(* records of the fetch are in images.                                    *)
C6_DispatchOrder ==
  \A j \in 1..Len(calls) :
    LET e == calls[j] IN
    /\ e.action.type = "fetch" =>
         j > 1 /\ calls[j - 1] = Entry(e.by, FetchingImages(TRUE))
    /\ e.action.type = "STACK_IMAGES" =>
         /\ NumRequestsFor(e.by) > 0
         /\ j < Len(calls)
         /\ calls[j + 1] = Entry(e.by, FetchingImages(FALSE))
         /\ \A k \in 1..Len(e.action.images) :
              \E m \in 1..Len(imgData.images) :
                imgData.images[m] = e.action.images[k]
    /\ e.action = FetchingImages(FALSE) => NumRequestsFor(e.by) > 0

(* the fetches of pages 0 and 1 were in flight together, page 1 resolved  *)
(* first, and the success callback of page 0 has just run with a record   *)
C6_Witness ==
  /\ Len(calls) = 2
  /\ calls[1].by = 0 /\ calls[1].action.type = "STACK_IMAGES"
  /\ Len(calls[1].action.images) > 0
  /\ RecordsOf(1) # {}
  /\ imgData.images[1].id[1] = 1

(* C7: the step in which the fetch of page N fails only sets fetching to  *)
(* false (images, the page counter and the img nodes keep their values);  *)
(* afterwards page N has still exactly one request, none outstanding, and *)
(* no record of page N is in images.                                      *)
C7_FailureOnlyEndsFetch ==
  /\ [](\A p \in failed :
          /\ NumRequestsFor(p) = 1
          /\ p \notin inflight
          /\ RecordsOf(p) = {})
  /\ [][\A p \in Pages :
          (p \in failed' /\ p \notin failed) =>
            /\ imgData'.images = imgData.images
            /\ imgData'.fetching = FALSE
            /\ pager' = pager
            /\ dom' = dom]_vars

(* page 1 failed while pages 0 and 2 delivered records, and the counter   *)
(* is still at 2                                                          *)
C7_Witness ==
  /\ failed = {1}
  /\ pager.page = 2
  /\ RecordsOf(0) # {}
  /\ RecordsOf(2) # {}

(* C8 (as claimed): an img node with an empty data-src keeps the          *)
(* placeholder and its diagnostic is recorded exactly once after its      *)
(* first qualifying notification, never twice.                            *)
C8_DiagnosticOnce ==
  \A i \in 1..Len(dom) :
    dom[i].data_src = NoUrl =>
      /\ dom[i].src = Placeholder
      /\ errors[i] = IF seen[i] > 0 THEN 1 ELSE 0

(* C9: an img node whose src is its real URL keeps that src in every     *)
(* later state.                                                           *)
C9_SwapIsPermanent ==
  [][\A i \in 1..Len(dom) :
       (dom[i].data_src # NoUrl /\ dom[i].src = dom[i].data_src) =>
         (i <= Len(dom') /\ dom'[i].src = dom[i].src)]_vars

(* a swapped node that was notified again after the list had changed *)
C9_Witness ==
  \E i \in 1..Len(dom) :
    /\ dom[i].data_src # NoUrl /\ dom[i].src = dom[i].data_src
    /\ seen[i] >= 2
    /\ Len(dom) >= 2

(* C10: the src of every img node is the placeholder or the image's own   *)
(* real URL, and it is the real URL only after a notification with a      *)
(* positive ratio for that node.                                          *)
C10_SrcIsPlaceholderOrOwnUrl ==
  /\ Len(dom) = Len(imgData.images)
  /\ \A i \in 1..Len(dom) :
       /\ \/ dom[i].src = Placeholder
          \/ /\ imgData.images[i].download_url # NoUrl
             /\ dom[i].src = imgData.images[i].download_url
       /\ dom[i].src # Placeholder => seen[i] > 0

(* one node swapped, another with a real URL never seen and still on the  *)
(* placeholder                                                            *)
C10_Witness ==
  \E i, k \in 1..Len(dom) :
    /\ dom[i].src = imgData.images[i].download_url /\ seen[i] > 0
    /\ imgData.images[k].download_url # NoUrl
    /\ seen[k] = 0 /\ dom[k].src = Placeholder

(* C11: STACK_IMAGES with record array R makes images the old list        *)
(* followed by R: the length grows by Len(R), the old records keep their  *)
(* positions, the new ones follow in the order received, and records that *)
(* are already present are appended again.                                *)
C11_StackConcatenates ==
  [][\A p \in Pages : \A R \in Responses(p, Len(imgData.images)) :
       imgDispatch(StackImages(R)) =>
         /\ Len(imgData'.images) = Len(imgData.images) + Len(R)
         /\ \A m \in 1..Len(imgData.images) :
              imgData'.images[m] = imgData.images[m]
         /\ \A k \in 1..Len(R) :
              imgData'.images[Len(imgData.images) + k] = R[k]]_vars

(* the same record has been stacked twice and is in the list twice *)
C11_Witness ==
  /\ Len(imgData.images) = 2
  /\ imgData.images[1] = imgData.images[2]
  /\ Len(calls) = 1 /\ calls[1].action.type = "STACK_IMAGES"

(* C12: a success with an empty array leaves images unchanged, sets       *)
(* fetching to false, and records neither a failure nor a diagnostic.     *)
C12_EmptyPageIsSuccess ==
  [][\A p \in Pages :
       FetchSuccess(p, <<>>) =>
         /\ imgData'.images = imgData.images
         /\ imgData'.fetching = FALSE
         /\ failed' = failed
         /\ errors' = errors
         /\ calls' = << Entry(p, StackImages(<<>>)),
                        Entry(p, FetchingImages(FALSE)) >>]_vars

(* the success callback has just run with an empty array on a list that   *)
(* already had a record                                                   *)
C12_Witness ==
  /\ Len(calls) = 2
  /\ calls[1].action = StackImages(<<>>)
  /\ calls[1].by \notin failed
  /\ calls[1].by \notin inflight
  /\ Len(imgData.images) > 0
  /\ ~imgData.fetching

(* C13 (as claimed): after the unmount no observer is attached to the     *)
(* bottom boundary or to an img node, and no later step makes a dispatch  *)
(* call or changes images, fetching, the page counter or an img source.   *)
C13_TeardownIsClean ==
  /\ [](~mounted =>
          /\ scrollObs = 0
          /\ \A i \in 1..Len(intObs) : intObs[i] = 0)
  /\ [][~mounted =>
          /\ calls' = calls
          /\ imgData' = imgData
          /\ pager' = pager
          /\ dom' = dom]_vars

(* C14 (as claimed): at most one fetch is in flight in every state.       *)
C14_OneFetchInFlight == Cardinality(inflight) <= 1

(* C15 (as claimed): an img node is given at most one observer in its     *)
(* life: it never has two active observers, and a node whose observer has *)
(* fired and detached (seen counts these) gets no further observer.       *)
C15_SingleWatch ==
  \A i \in 1..Len(intObs) : intObs[i] + seen[i] <= 1

(* C16: once the mount effects have run, exactly one observer is attached *)
(* to the bottom boundary in every state (none before), and whenever no   *)
(* effect is pending and the page bound is not reached, a notification    *)
(* with a positive ratio can be taken and advances the page.              *)
C16_OneSentinelWatch ==
  /\ scrollObs = IF depsPage # NoDeps THEN 1 ELSE 0
  /\ (depsPage # NoDeps /\ ~EffectsPending /\ pager.page < MaxPage) =>
       ENABLED scrollObserver(1)

(* the observer is still the only one after two firings, a failed fetch,  *)
(* a successful one and an image notification                             *)
C16_Witness ==
  /\ scrollObs = 1
  /\ advances = 2
  /\ failed # {}
  /\ \E i \in 1..Len(seen) : seen[i] > 0

(* C17 (as claimed): the records of images are in ascending page order,   *)
(* and within a page in the order of the response.                        *)
C17_PageOrder ==
  \A m, n \in 1..Len(imgData.images) :
    m < n =>
      \/ imgData.images[m].id[1] < imgData.images[n].id[1]
      \/ /\ imgData.images[m].id[1] = imgData.images[n].id[1]
         /\ imgData.images[m].id[2] < imgData.images[n].id[2]

(* everything but the record of the ratio of the latest notification *)
programVars ==
  <<pager, imgData, depsPage, depsItems, scrollObs, inflight, dom, intObs,
    seen, swaps, errors, itemsId, advances, requests, failed, calls, mounted>>

(* C18: a notification with ratio 0, for the bottom boundary or for an    *)
(* img node, changes nothing: the page counter, the requests, the img     *)
(* sources, the diagnostics and the attached observers stay as they are.  *)
C18_ZeroRatioIsIgnored ==
  [][(\/ lastRatio' = 0 /\ lastRatio # 0
      \/ scrollObserver(0)
      \/ \E i \in 1..Len(dom) : imgObserver(i, 0))
     => UNCHANGED programVars]_vars

(* a notification with ratio 0 was the latest one while an img node that  *)
(* was never seen still has its observer and the placeholder, and the     *)
(* page counter is still 0                                                *)
C18_Witness ==
  /\ lastRatio = 0
  /\ pager.page = 0 /\ Len(requests) = 1
  /\ \E i \in 1..Len(dom) :
       intObs[i] = 1 /\ seen[i] = 0 /\ dom[i].src = Placeholder

(* C19: each reducer action changes only its own field.  FETCHING_IMAGES  *)
(* sets fetching and keeps images, STACK_IMAGES keeps fetching,           *)
(* ADVANCE_PAGE adds 1 to page and keeps imgData, the image actions keep  *)
(* page, and an action of a type a reducer has no case for leaves that    *)
(* reducer's state as it is.                                              *)
C19_ReducerFrames ==
  [][/\ \A b \in BOOLEAN :
          imgDispatch(FetchingImages(b)) =>
            /\ imgData'.images = imgData.images
            /\ imgData'.fetching = b
            /\ pager' = pager
     /\ \A p \in Pages : \A R \in Responses(p, Len(imgData.images)) :
          imgDispatch(StackImages(R)) =>
            /\ imgData'.fetching = imgData.fetching
            /\ pager' = pager
     /\ pagerDispatch(AdvancePage) =>
          /\ pager'.page = pager.page + 1
          /\ imgData' = imgData
     /\ (imgDispatch(AdvancePage) \/ imgDispatch(Unknown)) =>
          imgData' = imgData
     /\ (\/ pagerDispatch(Unknown)
         \/ \E b \in BOOLEAN : pagerDispatch(FetchingImages(b))
         \/ \E p \in Pages : \E R \in Responses(p, Len(imgData.images)) :
              pagerDispatch(StackImages(R))) =>
          pager' = pager]_vars

(* an action of an unknown type has just been dispatched on a state with  *)
(* a record, fetching false and a page above 0                            *)
C19_Witness ==
  /\ calls = << Entry(NoDeps, Unknown) >>
  /\ Len(imgData.images) > 0
  /\ ~imgData.fetching
  /\ pager.page > 0

(* C20: once a request has been issued, fetching is false whenever no     *)
(* request is outstanding, whatever the order in which the requests were  *)
(* settled; so when the last outstanding request settles and no further   *)
(* one is issued, fetching is false and stays false.                      *)
C20_IdleMeansNotFetching ==
  (requests # <<>> /\ inflight = {}) => ~imgData.fetching

(* three requests, all settled, page 1 before page 0 and page 2 failed *)
C20_Witness ==
  /\ Len(requests) = 3 /\ inflight = {}
  /\ failed = {2}
  /\ Len(imgData.images) = 2
  /\ imgData.images[1].id[1] = 1 /\ imgData.images[2].id[1] = 0
  /\ ~imgData.fetching

(* C21: the requests are issued in page order without gaps: the k-th      *)
(* request is the one for page k-1, the first one (page 0) is issued by   *)
(* the mount effects before any notification of the bottom boundary, and  *)
(* once the fetch effect has run for the current page the number of       *)
(* requests is page + 1.                                                  *)
C21_RequestsInPageOrder ==
  /\ [](/\ \A j \in 1..Len(requests) : requests[j] = Request(j - 1)
        /\ requests = <<>> => (advances = 0 /\ lastRatio = NoDeps)
        /\ FetchEffectDone => Len(requests) = pager.page + 1)
  /\ [][requests' # requests =>
          /\ requests' = Append(requests, Request(Len(requests)))
          /\ pager'.page = Len(requests)]_vars

(* three requests, for pages 0, 1, 2 in this order, although page 1 has   *)
(* failed and page 0 is still outstanding                                 *)
C21_Witness ==
  /\ requests = << Request(0), Request(1), Request(2) >>
  /\ 1 \in failed /\ 0 \in inflight
  /\ pager.page = 2

(* C22: once the registration effect has run for the current list, every  *)
(* img node that has had no notification with a positive ratio has at     *)
(* least one observer and can be notified; an observer is removed only    *)
(* from the node that was notified with a positive ratio; and such a      *)
(* notification of a node with a real URL sets its src to that URL.       *)
C22_UnseenIsWatched ==
  /\ [](depsItems = itemsId =>
          \A i \in 1..Len(dom) :
            seen[i] = 0 => (intObs[i] >= 1 /\ ENABLED imgObserver(i, 1)))
  /\ [][\A i \in 1..Len(dom) :
          /\ intObs'[i] < intObs[i] =>
               /\ seen'[i] = seen[i] + 1
               /\ \A k \in 1..Len(dom) : k # i => intObs'[k] = intObs[k]
          /\ (imgObserver(i, 1) /\ imgData.images[i].download_url # NoUrl) =>
               dom'[i].src = imgData.images[i].download_url]_vars

(* a node with a real URL was notified and shows it, while another node,  *)
(* not notified yet, has been registered twice                            *)
C22_Witness ==
  /\ depsItems = itemsId
  /\ \E i, k \in 1..Len(dom) :
       /\ swaps[i] = 1 /\ intObs[i] = 0
       /\ dom[i].src = imgData.images[i].download_url
       /\ seen[k] = 0 /\ intObs[k] = 2

====
